---- MODULE Spec2Model ----
(***************************************************************************)
(* Credential issuance controller (src/src/issuer/mod.rs): one Key Event   *)
(* Log (KERL) and one Transaction Event Log (Tel) bound by anchoring       *)
(* seals.  The Controller's operations are modelled from issuer/mod.rs;    *)
(* the KERL and Tel engines (crate::kerl, crate::tel) are modelled from    *)
(* their documented behaviour.                                             *)
(***************************************************************************)
EXTENDS Integers, Sequences, FiniteSets, TLC

VARIABLES phase, kerl, tel, km, held, last, given, threads

vars == <<phase, kerl, tel, km, held, last, given, threads>>

\* ------------------------------------------------------------------------
\* Bounds of the model
\* ------------------------------------------------------------------------
\* longest KEL explored (inception + anchors + rotations)
MaxKel == 5
\* number of key-manager rotations explored
MaxRot == 1
\* longest KEL explored for a registry incepted with other arguments than
\* those of test_issuing
MaxKelInit == 3

\* largest key set the verification fold is applied to
MaxKeys == 2

Messages == {"m1", "m2"}

\* ------------------------------------------------------------------------
\* Digest / signature primitives
\* ------------------------------------------------------------------------
\* SelfAddressing::Blake3_256.derive(bytes): collision-free content digest
Derive(bytes) == [code |-> "Blake3_256", of |-> bytes]

\* EventMessage::serialize(): the event alone, no attachment
SerializeEvent(ev) == [fmt |-> "JSON", event |-> ev, attachment |-> <<>>]

\* SignedEventMessage::serialize(): the event followed by its signatures
SerializeSigned(sev) ==
    [fmt |-> "JSON", event |-> sev.event_message, attachment |-> sev.signatures]

\* KeyManager::public_key / next_public_key as basic prefixes
BasicPrefix(key) == [code |-> "Ed25519", key |-> key]

\* KeyManager::sign(data) with the current signer
KmSign(k, data) == [signer |-> k.signer, data |-> data]

\* SelfSigning::Ed25519Sha512.derive(signature)
SelfSigningDerive(signature) == [code |-> "Ed25519Sha512", sig |-> signature]

\* BasicPrefix::verify(data, sspref)
PrefixVerify(bp, data, sspref) ==
    /\ sspref.sig.signer = bp.key
    /\ sspref.sig.data = data

\* CryptoBox::rotate(): the next signer becomes current
KmRotated(k) == [signer |-> k.next_signer, next_signer |-> k.next_signer + 1]

Ok(v) == [ok |-> TRUE, err |-> "", val |-> v]
Err(e) == [ok |-> FALSE, err |-> e, val |-> <<>>]

\* ------------------------------------------------------------------------
\* KERL engine (crate::kerl)
\* ------------------------------------------------------------------------
NoState == [tag |-> "None"]

\* IdentifierState after applying one event
KelApply(st, ev) ==
    IF ev.type = "icp"
    THEN [tag |-> "Some", prefix |-> ev.prefix, sn |-> ev.sn,
          current |-> ev.keys, next |-> ev.next]
    ELSE IF ev.type = "rot"
    THEN [tag |-> "Some", prefix |-> st.prefix, sn |-> ev.sn,
          current |-> ev.keys, next |-> ev.next]
    ELSE [tag |-> "Some", prefix |-> st.prefix, sn |-> ev.sn,
          current |-> st.current, next |-> st.next]

RECURSIVE KelFold(_, _)
\* state after the first n events of the log
KelFold(k, n) ==
    IF n = 0 THEN NoState ELSE KelApply(KelFold(k, n - 1), k[n].event_message)

\* KERL::get_state(): the latest identifier state
KerlGetState(k) == KelFold(k, Len(k))

\* every key of the set validates the signatures attached to the event
SignedBy(keys, sev) ==
    /\ Len(sev.signatures) = Len(keys)
    /\ \A i \in 1..Len(keys) :
          PrefixVerify(keys[i], SerializeEvent(sev.event_message),
                       SelfSigningDerive(sev.signatures[i]))

\* KERL::incept(km)
KerlIncept(k, kmgr, io) ==
    LET icp == [type |-> "icp", prefix |-> BasicPrefix(kmgr.signer), sn |-> 0,
                keys |-> <<BasicPrefix(kmgr.signer)>>,
                next |-> Derive(BasicPrefix(kmgr.next_signer)), seals |-> <<>>]
        sev == [event_message |-> icp,
                signatures |-> <<KmSign(kmgr, SerializeEvent(icp))>>]
    IN IF Len(k) = 0 /\ io
       THEN [ok |-> TRUE, kerl |-> Append(k, sev), ev |-> sev]
       ELSE [ok |-> FALSE, kerl |-> k, ev |-> sev]

\* KERL::make_ixn_with_seal(seals, km): build, sign, process an interaction
\* event; rejected when the signer is not the current key set of the KEL
KerlMakeIxnWithSeal(k, seals, kmgr, io) ==
    LET st == KerlGetState(k)
        ixn == [type |-> "ixn", prefix |-> st.prefix, sn |-> st.sn + 1,
                seals |-> seals]
        sev == [event_message |-> ixn,
                signatures |-> <<KmSign(kmgr, SerializeEvent(ixn))>>]
    IN IF st.tag = "Some" /\ io /\ SignedBy(st.current, sev)
       THEN [ok |-> TRUE, kerl |-> Append(k, sev), ev |-> sev]
       ELSE [ok |-> FALSE, kerl |-> k, ev |-> sev]

\* KERL::rotate(km): rotation event to the key manager's current key, which
\* must be the key the previous establishment event committed to
KerlRotate(k, kmgr, io) ==
    LET st == KerlGetState(k)
        rot == [type |-> "rot", prefix |-> st.prefix, sn |-> st.sn + 1,
                keys |-> <<BasicPrefix(kmgr.signer)>>,
                next |-> Derive(BasicPrefix(kmgr.next_signer)), seals |-> <<>>]
        sev == [event_message |-> rot,
                signatures |-> <<KmSign(kmgr, SerializeEvent(rot))>>]
    IN IF /\ st.tag = "Some"
          /\ io
          /\ Derive(BasicPrefix(kmgr.signer)) = st.next
          /\ SignedBy(rot.keys, sev)
       THEN [ok |-> TRUE, kerl |-> Append(k, sev), ev |-> sev]
       ELSE [ok |-> FALSE, kerl |-> k, ev |-> sev]

\* KERL::get_state_for_seal(prefix, sn, digest): the key state as of the event
\* at sequence number sn, provided that event has the given digest
KerlGetStateForSeal(k, prefix, sn, digest) ==
    IF /\ sn + 1 <= Len(k)
       /\ KelFold(k, sn + 1).prefix = prefix
       /\ Derive(SerializeEvent(k[sn + 1].event_message)) = digest
    THEN KelFold(k, sn + 1)
    ELSE NoState

\* ------------------------------------------------------------------------
\* Tel engine (crate::tel)
\* ------------------------------------------------------------------------
\* digest identifying a message: Blake3_256 of its bytes
MessageHash(message) == Derive(message)

MessageHashes == {MessageHash(m) : m \in Messages}

NotIsuued == [tag |-> "NotIsuued"]
Revoked == [tag |-> "Revoked"]
Issued(lastEvent) == [tag |-> "Issued", last |-> lastEvent]

\* TelState::apply accepting an issuance event on a revoked credential
TelStateApply_Reissue(st, ev) ==
    IF ev.type = "iss"
    THEN IF st.tag \in {"NotIsuued", "Revoked"}
         THEN [ok |-> TRUE, state |-> Issued(SerializeEvent(ev))]
         ELSE [ok |-> FALSE, state |-> st]
    ELSE IF ev.type = "rev"
    THEN IF /\ st.tag = "Issued"
            /\ ev.sn = 1
            /\ ev.prev_event_hash = Derive(st.last)
         THEN [ok |-> TRUE, state |-> Revoked]
         ELSE [ok |-> FALSE, state |-> st]
    ELSE [ok |-> FALSE, state |-> st]

\* TelState::apply: one credential event applied to a credential state
TelStateApply(st, ev) ==
    IF ev.type = "iss"
    THEN IF st.tag = "NotIsuued" /\ ev.sn = 0
         THEN [ok |-> TRUE, state |-> Issued(SerializeEvent(ev))]
         ELSE [ok |-> FALSE, state |-> st]
    ELSE IF ev.type = "rev"
    THEN IF /\ st.tag = "Issued"
            /\ ev.sn = 1
            /\ ev.prev_event_hash = Derive(st.last)
         THEN [ok |-> TRUE, state |-> Revoked]
         ELSE [ok |-> FALSE, state |-> st]
    ELSE [ok |-> FALSE, state |-> st]

RECURSIVE VcFold(_, _)
\* credential state after the first n events of a credential log
VcFold(log, n) ==
    IF n = 0 THEN NotIsuued
    ELSE TelStateApply(VcFold(log, n - 1), log[n].event).state

\* Tel::get_tel(hash): the credential log of a message digest
TelGetTel(t, hash) == t.vc[hash]

\* Tel::get_vc_state(hash): the fold of the credential log, oldest first
TelGetVcState(t, hash) == VcFold(t.vc[hash], Len(t.vc[hash]))

\* Tel::get_management_events()
TelGetManagementEvents(t) == t.management

RemoveAll(seq, gone) ==
    SelectSeq(seq, LAMBDA b : \A i \in 1..Len(gone) : gone[i] # b)

\* ManagerTelState::apply: one management event applied to the registry state
ManagerApply(st, ev) ==
    IF ev.type = "vcp"
    THEN [tag |-> "Some", prefix |-> ev.prefix, sn |-> ev.sn,
          last |-> Derive(SerializeEvent(ev)), issuer |-> ev.issuer_id,
          config |-> ev.config, backer_threshold |-> ev.backer_threshold,
          backers |-> ev.backers]
    ELSE [tag |-> "Some", prefix |-> st.prefix, sn |-> ev.sn,
          last |-> Derive(SerializeEvent(ev)), issuer |-> st.issuer,
          config |-> st.config, backer_threshold |-> st.backer_threshold,
          backers |-> RemoveAll(st.backers, ev.br) \o ev.ba]

RECURSIVE ManagementFold(_, _)
ManagementFold(log, n) ==
    IF n = 0 THEN NoState
    ELSE ManagerApply(ManagementFold(log, n - 1), log[n].event)

\* Tel::get_management_tel_state()
TelGetManagementTelState(t) == ManagementFold(t.management, Len(t.management))

\* Tel::get_issuer(): the issuer the registry was incepted for
TelGetIssuer(t) == TelGetManagementTelState(t).issuer

\* Tel::make_inception_event(issuer, config, backer_threshold, backers)
TelMakeInceptionEvent(issuer, config, bt, b) ==
    LET data == [issuer_id |-> issuer, config |-> config,
                 backer_threshold |-> bt, backers |-> b]
    IN [type |-> "vcp", prefix |-> Derive(data), sn |-> 0, issuer_id |-> issuer,
        config |-> config, backer_threshold |-> bt, backers |-> b]

\* Tel::make_rotation_event(ba, br)
TelMakeRotationEvent(t, ba, br) ==
    LET st == TelGetManagementTelState(t)
    IN [type |-> "vrt", prefix |-> st.prefix, sn |-> st.sn + 1,
        prev_event |-> st.last, ba |-> ba, br |-> br]

\* Tel::make_issuance_event(message)
TelMakeIssuanceEvent(t, message) ==
    [type |-> "iss", prefix |-> MessageHash(message), sn |-> 0,
     registry_id |-> TelGetManagementTelState(t).prefix]

\* Tel::make_revoke_event(message_id): needs the issuance event to chain to,
\* so it fails unless the credential is currently Issued
TelMakeRevokeEvent(t, message_id) ==
    LET st == TelGetVcState(t, message_id)
    IN IF st.tag = "Issued"
       THEN [ok |-> TRUE,
             ev |-> [type |-> "rev", prefix |-> message_id, sn |-> 1,
                     prev_event_hash |-> Derive(st.last),
                     registry_id |-> TelGetManagementTelState(t).prefix]]
       ELSE [ok |-> FALSE, ev |-> <<>>]

\* VerifiableEvent::new(event, seal)
VerifiableEvent(kind, event, seal) ==
    [kind |-> kind, event |-> event, seal |-> seal]

\* Tel::process(verifiable_event): validate against the folded state, persist
TelProcess(t, vev, io) ==
    LET ev == vev.event
        mst == TelGetManagementTelState(t)
    IN IF ~io THEN [ok |-> FALSE, tel |-> t]
       ELSE IF vev.kind = "Management"
       THEN IF \/ ev.type = "vcp" /\ mst.tag = "None" /\ ev.sn = 0
               \/ /\ ev.type = "vrt"
                  /\ mst.tag = "Some"
                  /\ ev.sn = mst.sn + 1
                  /\ ev.prev_event = mst.last
            THEN [ok |-> TRUE,
                  tel |-> [t EXCEPT !.management = Append(@, vev)]]
            ELSE [ok |-> FALSE, tel |-> t]
       ELSE IF mst.tag = "Some" /\ TelStateApply(TelGetVcState(t, ev.prefix), ev).ok
            THEN [ok |-> TRUE,
                  tel |-> [t EXCEPT !.vc[ev.prefix] = Append(@, vev)]]
            ELSE [ok |-> FALSE, tel |-> t]

\* ------------------------------------------------------------------------
\* Controller (src/src/issuer/mod.rs)
\* ------------------------------------------------------------------------
\* Seal::Event(EventSeal {prefix, sn, event_digest}) of a TEL event
EventSeal(ev) ==
    [prefix |-> ev.prefix, sn |-> ev.sn,
     event_digest |-> Derive(SerializeEvent(ev))]

\* source seal built by incept_tel: digest of ixn.event_message
InceptTelSourceSeal(ixn) ==
    [sn |-> ixn.event_message.sn,
     digest |-> Derive(SerializeEvent(ixn.event_message))]

\* source seal built by update_backers: digest of the signed ixn
UpdateBackersSourceSeal(ixn) ==
    [sn |-> ixn.event_message.sn, digest |-> Derive(SerializeSigned(ixn))]

\* issue deriving the source seal digest from the signed ixn
IssueSourceSeal_Signed(ixn) ==
    [sn |-> ixn.event_message.sn, digest |-> Derive(SerializeSigned(ixn))]

\* source seal built by issue: digest of ixn.event_message
IssueSourceSeal(ixn) ==
    [sn |-> ixn.event_message.sn,
     digest |-> Derive(SerializeEvent(ixn.event_message))]

\* revoke building its source seal as issue does, from ixn.event_message
RevokeSourceSeal_EventMessage(ixn) ==
    [sn |-> ixn.event_message.sn,
     digest |-> Derive(SerializeEvent(ixn.event_message))]

\* source seal built by revoke: digest of the signed ixn
RevokeSourceSeal(ixn) ==
    [sn |-> ixn.event_message.sn, digest |-> Derive(SerializeSigned(ixn))]

\* incept_tel treating an empty backer list like no backer list
InceptTel_FlagForEmpty(k, t, kmgr, backers, backer_threshold, kelIo, telIo) ==
    LET config == IF backers.some /\ Len(backers.list) > 0
                  THEN <<>> ELSE <<"NoBackers">>
        b == IF backers.some THEN backers.list ELSE <<>>
        vcp == TelMakeInceptionEvent(KerlGetState(k).prefix, config,
                                     backer_threshold, b)
        a == KerlMakeIxnWithSeal(k, <<EventSeal(vcp)>>, kmgr, kelIo)
        p == TelProcess(t, VerifiableEvent("Management", vcp,
                                           InceptTelSourceSeal(a.ev)), telIo)
    IN IF ~a.ok THEN [kerl |-> k, tel |-> t, res |-> Err("make_ixn_with_seal")]
       ELSE IF ~p.ok THEN [kerl |-> a.kerl, tel |-> t, res |-> Err("tel.process")]
       ELSE [kerl |-> a.kerl, tel |-> p.tel, res |-> Ok(<<>>)]

\* incept_tel dropping the error of tel.process
InceptTel_IgnoreSubmitError(k, t, kmgr, backers, backer_threshold, kelIo, telIo) ==
    LET config == IF backers.some THEN <<>> ELSE <<"NoBackers">>
        b == IF backers.some THEN backers.list ELSE <<>>
        vcp == TelMakeInceptionEvent(KerlGetState(k).prefix, config,
                                     backer_threshold, b)
        a == KerlMakeIxnWithSeal(k, <<EventSeal(vcp)>>, kmgr, kelIo)
        p == TelProcess(t, VerifiableEvent("Management", vcp,
                                           InceptTelSourceSeal(a.ev)), telIo)
    IN IF ~a.ok THEN [kerl |-> k, tel |-> t, res |-> Err("make_ixn_with_seal")]
       ELSE [kerl |-> a.kerl, tel |-> p.tel, res |-> Ok(<<>>)]

\* Controller::incept_tel
InceptTel(k, t, kmgr, backers, backer_threshold, kelIo, telIo) ==
    LET config == IF backers.some THEN <<>> ELSE <<"NoBackers">>
        b == IF backers.some THEN backers.list ELSE <<>>
        vcp == TelMakeInceptionEvent(KerlGetState(k).prefix, config,
                                     backer_threshold, b)
        a == KerlMakeIxnWithSeal(k, <<EventSeal(vcp)>>, kmgr, kelIo)
        p == TelProcess(t, VerifiableEvent("Management", vcp,
                                           InceptTelSourceSeal(a.ev)), telIo)
    IN IF ~a.ok THEN [kerl |-> k, tel |-> t, res |-> Err("make_ixn_with_seal")]
       ELSE IF ~p.ok THEN [kerl |-> a.kerl, tel |-> t, res |-> Err("tel.process")]
       ELSE [kerl |-> a.kerl, tel |-> p.tel, res |-> Ok(<<>>)]

\* Controller::update_backers
UpdateBackers(k, t, kmgr, ba, br, kelIo, telIo) ==
    LET rcp == TelMakeRotationEvent(t, ba, br)
        a == KerlMakeIxnWithSeal(k, <<EventSeal(rcp)>>, kmgr, kelIo)
        p == TelProcess(t, VerifiableEvent("Management", rcp,
                                           UpdateBackersSourceSeal(a.ev)), telIo)
    IN IF ~a.ok THEN [kerl |-> k, tel |-> t, res |-> Err("make_ixn_with_seal")]
       ELSE IF ~p.ok THEN [kerl |-> a.kerl, tel |-> t, res |-> Err("tel.process")]
       ELSE [kerl |-> a.kerl, tel |-> p.tel, res |-> Ok(<<>>)]

\* issue submitting the TEL event although make_ixn_with_seal failed
Issue_SubmitUnanchored(k, t, kmgr, message, kelIo, telIo, signOk) ==
    LET iss == TelMakeIssuanceEvent(t, message)
        a == KerlMakeIxnWithSeal(k, <<EventSeal(iss)>>, kmgr, kelIo)
        p == TelProcess(t, VerifiableEvent("Vc", iss, IssueSourceSeal(a.ev)),
                        telIo)
    IN IF ~p.ok THEN [kerl |-> a.kerl, tel |-> t, res |-> Err("tel.process")]
       ELSE IF ~signOk THEN [kerl |-> a.kerl, tel |-> p.tel, res |-> Err("km.sign")]
       ELSE [kerl |-> a.kerl, tel |-> p.tel, res |-> Ok(KmSign(kmgr, message))]

\* issue dropping the error of tel.process
Issue_IgnoreSubmitError(k, t, kmgr, message, kelIo, telIo, signOk) ==
    LET iss == TelMakeIssuanceEvent(t, message)
        a == KerlMakeIxnWithSeal(k, <<EventSeal(iss)>>, kmgr, kelIo)
        p == TelProcess(t, VerifiableEvent("Vc", iss, IssueSourceSeal(a.ev)),
                        telIo)
    IN IF ~a.ok THEN [kerl |-> k, tel |-> t, res |-> Err("make_ixn_with_seal")]
       ELSE IF ~signOk THEN [kerl |-> a.kerl, tel |-> p.tel, res |-> Err("km.sign")]
       ELSE [kerl |-> a.kerl, tel |-> p.tel, res |-> Ok(KmSign(kmgr, message))]

\* issue anchoring and signing without submitting the issuance event
Issue_NoSubmit(k, t, kmgr, message, kelIo, telIo, signOk) ==
    LET iss == TelMakeIssuanceEvent(t, message)
        a == KerlMakeIxnWithSeal(k, <<EventSeal(iss)>>, kmgr, kelIo)
    IN IF ~a.ok THEN [kerl |-> k, tel |-> t, res |-> Err("make_ixn_with_seal")]
       ELSE IF ~signOk THEN [kerl |-> a.kerl, tel |-> t, res |-> Err("km.sign")]
       ELSE [kerl |-> a.kerl, tel |-> t, res |-> Ok(KmSign(kmgr, message))]

\* Controller::issue
Issue(k, t, kmgr, message, kelIo, telIo, signOk) ==
    LET iss == TelMakeIssuanceEvent(t, message)
        a == KerlMakeIxnWithSeal(k, <<EventSeal(iss)>>, kmgr, kelIo)
        p == TelProcess(t, VerifiableEvent("Vc", iss, IssueSourceSeal(a.ev)),
                        telIo)
    IN IF ~a.ok THEN [kerl |-> k, tel |-> t, res |-> Err("make_ixn_with_seal")]
       ELSE IF ~p.ok THEN [kerl |-> a.kerl, tel |-> t, res |-> Err("tel.process")]
       ELSE IF ~signOk THEN [kerl |-> a.kerl, tel |-> p.tel, res |-> Err("km.sign")]
       ELSE [kerl |-> a.kerl, tel |-> p.tel, res |-> Ok(KmSign(kmgr, message))]

\* revoke dropping the error of tel.process
Revoke_IgnoreSubmitError(k, t, kmgr, message, kelIo, telIo) ==
    LET message_id == MessageHash(message)
        rev == TelMakeRevokeEvent(t, message_id)
        a == KerlMakeIxnWithSeal(k, <<EventSeal(rev.ev)>>, kmgr, kelIo)
        p == TelProcess(t, VerifiableEvent("Vc", rev.ev, RevokeSourceSeal(a.ev)),
                        telIo)
    IN IF ~rev.ok THEN [kerl |-> k, tel |-> t, res |-> Err("make_revoke_event")]
       ELSE IF ~a.ok THEN [kerl |-> k, tel |-> t, res |-> Err("make_ixn_with_seal")]
       ELSE [kerl |-> a.kerl, tel |-> p.tel, res |-> Ok(<<>>)]

\* revoke deriving the credential id from another message than the given one
Revoke_OtherMessage(k, t, kmgr, message, kelIo, telIo) ==
    LET message_id == MessageHash(CHOOSE m \in Messages : m # message)
        rev == TelMakeRevokeEvent(t, message_id)
        a == KerlMakeIxnWithSeal(k, <<EventSeal(rev.ev)>>, kmgr, kelIo)
        p == TelProcess(t, VerifiableEvent("Vc", rev.ev, RevokeSourceSeal(a.ev)),
                        telIo)
    IN IF ~rev.ok THEN [kerl |-> k, tel |-> t, res |-> Err("make_revoke_event")]
       ELSE IF ~a.ok THEN [kerl |-> k, tel |-> t, res |-> Err("make_ixn_with_seal")]
       ELSE IF ~p.ok THEN [kerl |-> a.kerl, tel |-> t, res |-> Err("tel.process")]
       ELSE [kerl |-> a.kerl, tel |-> p.tel, res |-> Ok(<<>>)]

\* Controller::revoke
Revoke(k, t, kmgr, message, kelIo, telIo) ==
    LET message_id == MessageHash(message)
        rev == TelMakeRevokeEvent(t, message_id)
        a == KerlMakeIxnWithSeal(k, <<EventSeal(rev.ev)>>, kmgr, kelIo)
        p == TelProcess(t, VerifiableEvent("Vc", rev.ev, RevokeSourceSeal(a.ev)),
                        telIo)
    IN IF ~rev.ok THEN [kerl |-> k, tel |-> t, res |-> Err("make_revoke_event")]
       ELSE IF ~a.ok THEN [kerl |-> k, tel |-> t, res |-> Err("make_ixn_with_seal")]
       ELSE IF ~p.ok THEN [kerl |-> a.kerl, tel |-> t, res |-> Err("tel.process")]
       ELSE [kerl |-> a.kerl, tel |-> p.tel, res |-> Ok(<<>>)]

\* rotate dropping the error of kerl.rotate
Rotate_IgnoreError(k, t, kmgr, kelIo) ==
    LET r == KerlRotate(k, kmgr, kelIo)
    IN [kerl |-> r.kerl, tel |-> t, res |-> Ok(<<>>)]

\* Controller::rotate
Rotate(k, t, kmgr, kelIo) ==
    LET r == KerlRotate(k, kmgr, kelIo)
    IN IF ~r.ok THEN [kerl |-> k, tel |-> t, res |-> Err("kerl.rotate")]
       ELSE [kerl |-> r.kerl, tel |-> t, res |-> Ok(<<>>)]

\* Controller::get_vc_state
GetVcState(t, hash) == TelGetVcState(t, hash)

\* Controller::get_tel
GetTel(t, hash) == TelGetTel(t, hash)

\* get_pub_key answering with the latest key state of the KEL
GetPubKey_Latest(k, t, message_hash) ==
    LET log == TelGetTel(t, message_hash)
        st == KerlGetState(k)
    IN IF Len(log) = 0 THEN Err("No events in tel")
       ELSE IF st.tag = "Some" THEN Ok(st.current)
       ELSE Err("No key data")

\* get_pub_key answering an unresolved seal with an empty key set
GetPubKey_EmptyKeySet(k, t, message_hash) ==
    LET log == TelGetTel(t, message_hash)
        source_seal == log[Len(log)].seal
        st == KerlGetStateForSeal(k, TelGetIssuer(t), source_seal.sn,
                                  source_seal.digest)
    IN IF Len(log) = 0 THEN Err("No events in tel")
       ELSE IF st.tag = "Some" THEN Ok(st.current)
       ELSE Ok(<<>>)

\* Controller::get_pub_key: key state at the source seal of the last event
GetPubKey(k, t, message_hash) ==
    LET log == TelGetTel(t, message_hash)
        source_seal == log[Len(log)].seal
        st == KerlGetStateForSeal(k, TelGetIssuer(t), source_seal.sn,
                                  source_seal.digest)
    IN IF Len(log) = 0 THEN Err("No events in tel")
       ELSE IF st.tag = "Some" THEN Ok(st.current)
       ELSE Err("No key data")

RECURSIVE FoldKeys_Any(_, _, _, _)
\* the fold written with ||: one validating key is enough
FoldKeys_Any(keys, n, message, signature) ==
    IF n = 0 THEN FALSE
    ELSE \/ FoldKeys_Any(keys, n - 1, message, signature)
         \/ PrefixVerify(keys[n], message, SelfSigningDerive(signature))

RECURSIVE FoldKeys(_, _, _, _)
\* key.into_iter().fold(true, |acc, k| acc && k.verify(message, sspref))
FoldKeys(keys, n, message, signature) ==
    IF n = 0 THEN TRUE
    ELSE /\ FoldKeys(keys, n - 1, message, signature)
         /\ PrefixVerify(keys[n], message, SelfSigningDerive(signature))

\* verify without the Revoked arm: a revoked credential is verified like an
\* issued one
Verify_NoRevokedArm(k, t, message, signature) ==
    LET message_hash == MessageHash(message)
        st == GetVcState(t, message_hash)
        key == GetPubKey(k, t, message_hash)
    IN IF st.tag = "NotIsuued" THEN Err("Not yet issued")
       ELSE IF ~key.ok THEN key
       ELSE Ok(FoldKeys(key.val, Len(key.val), message, signature))

\* Controller::verify
Verify(k, t, message, signature) ==
    LET message_hash == MessageHash(message)
        st == GetVcState(t, message_hash)
        key == GetPubKey(k, t, message_hash)
    IN IF st.tag = "NotIsuued" THEN Err("Not yet issued")
       ELSE IF st.tag = "Issued"
       THEN IF ~key.ok THEN key
            ELSE Ok(FoldKeys(key.val, Len(key.val), message, signature))
       ELSE Err("VC was revoked")

\* ------------------------------------------------------------------------
\* State machine: one Controller, one key manager, calls run to completion
\* ------------------------------------------------------------------------
NoSignature == [signer |-> -1, data |-> ""]

\* signatures a caller may present to verify a message: the message signed
\* by any generation of the key manager's signer
Signatures(message) ==
    {KmSign([signer |-> g, next_signer |-> g + 1], message) : g \in 0..MaxRot}

EmptyTel == [management |-> <<>>, vc |-> [h \in MessageHashes |-> <<>>]]

\* record of the latest call that wrote: operation, message, returned Result
Called(op, message, res) == [op |-> op, message |-> message, res |-> res]

\* one injected failure per call at most: KEL storage, TEL storage, signing
Faults == {"none", "kel", "tel", "sign"}

\* (backers, backer_threshold) given to init in test_issuing
TestConfig == <<[some |-> TRUE, list |-> <<>>], 0>>

\* (backers, backer_threshold) a caller may give to init
InitConfigs ==
    {TestConfig,
     <<[some |-> FALSE, list |-> <<>>], 0>>,
     <<[some |-> TRUE, list |-> <<"b1">>], 0>>,
     <<[some |-> TRUE, list |-> <<"b1">>], 1>>}

\* bound on the KEL for the registry the caller asked for
KelBound == IF given = TestConfig THEN MaxKel ELSE MaxKelInit

\* the callers of the Controller and a caller with no call in flight
Callers == {1, 2}

IdleThread == [pc |-> "idle", res |-> "none", ev |-> <<>>]

\* (ba, br) given to update_backers
BackerUpdates == {<<(<<"b1">>), (<<>>)>>}

\* Controller::new and CryptoBox::new: empty logs, fresh key manager; the
\* caller holds no signature yet
Init ==
    /\ phase = "new"
    /\ kerl = <<>>
    /\ tel = EmptyTel
    /\ km = [signer |-> 0, next_signer |-> 1]
    /\ held = [m \in Messages |-> NoSignature]
    /\ last = Called("new", "", Ok(<<>>))
    /\ given \in InitConfigs
    /\ threads = [c \in Callers |-> IdleThread]

\* Controller::init, first half: incept_kel; an error drops the controller
CallInceptKel ==
    /\ phase = "new"
    /\ \E fault \in {"none", "kel"} :
          LET i == KerlIncept(kerl, km, fault # "kel")
          IN /\ phase' = IF i.ok THEN "incept_tel" ELSE "failed"
             /\ kerl' = i.kerl
             /\ last' = Called("incept_kel", "",
                               IF i.ok THEN Ok(<<>>) ELSE Err("kerl.incept"))
    /\ UNCHANGED <<tel, km, held, given, threads>>

\* Controller::init, second half: incept_tel; an error drops the controller
CallInceptTel ==
    /\ phase = "incept_tel"
    /\ \E fault \in Faults \ {"sign"} :
          LET o == InceptTel(kerl, tel, km, given[1], given[2],
                             fault # "kel", fault # "tel")
          IN /\ phase' = IF o.res.ok THEN "ready" ELSE "failed"
             /\ kerl' = o.kerl
             /\ tel' = o.tel
             /\ last' = Called("incept_tel", "", o.res)
    /\ UNCHANGED <<km, held, given, threads>>

CallUpdateBackers ==
    /\ phase = "ready"
    /\ Len(kerl) < KelBound
    /\ \E u \in BackerUpdates, fault \in Faults \ {"sign"} :
          LET o == UpdateBackers(kerl, tel, km, u[1], u[2],
                                 fault # "kel", fault # "tel")
          IN /\ kerl' = o.kerl
             /\ tel' = o.tel
             /\ last' = Called("update_backers", "", o.res)
    /\ UNCHANGED <<phase, km, held, given, threads>>

\* issue; the caller keeps the signature a successful call returns
CallIssue ==
    /\ phase = "ready"
    /\ Len(kerl) < KelBound
    /\ \E message \in Messages, fault \in Faults :
          LET o == Issue(kerl, tel, km, message,
                         fault # "kel", fault # "tel", fault # "sign")
          IN /\ kerl' = o.kerl
             /\ tel' = o.tel
             /\ held' = IF o.res.ok THEN [held EXCEPT ![message] = o.res.val]
                        ELSE held
             /\ last' = Called("issue", message, o.res)
    /\ UNCHANGED <<phase, km, given, threads>>

CallRevoke ==
    /\ phase = "ready"
    /\ Len(kerl) < KelBound
    /\ \E message \in Messages, fault \in Faults \ {"sign"} :
          LET o == Revoke(kerl, tel, km, message, fault # "kel", fault # "tel")
          IN /\ kerl' = o.kerl
             /\ tel' = o.tel
             /\ last' = Called("revoke", message, o.res)
    /\ UNCHANGED <<phase, km, held, given, threads>>

CallRotate ==
    /\ phase = "ready"
    /\ Len(kerl) < KelBound
    /\ \E fault \in {"none", "kel"} :
          LET o == Rotate(kerl, tel, km, fault # "kel")
          IN /\ kerl' = o.kerl
             /\ tel' = o.tel
             /\ last' = Called("rotate", "", o.res)
    /\ UNCHANGED <<phase, km, held, given, threads>>

\* km.rotate() of the caller's key manager
CallKmRotate ==
    /\ phase = "ready"
    /\ km.signer < MaxRot
    /\ km' = KmRotated(km)
    /\ last' = Called("km.rotate", "", Ok(<<>>))
    /\ UNCHANGED <<phase, kerl, tel, held, given, threads>>

\* The read-only calls (&self, no write to either log): the value each returns
\* in a state is given by GetVcState, GetTel, GetPubKey and Verify there.
CallGetVcState ==
    /\ phase = "ready"
    /\ \E message \in Messages :
          GetVcState(tel, MessageHash(message)).tag
              \in {"NotIsuued", "Issued", "Revoked"}
    /\ UNCHANGED vars

CallGetTel ==
    /\ phase = "ready"
    /\ \E message \in Messages : Len(GetTel(tel, MessageHash(message))) >= 0
    /\ UNCHANGED vars

CallGetPubKey ==
    /\ phase = "ready"
    /\ \E message \in Messages :
          GetPubKey(kerl, tel, MessageHash(message)).ok \in BOOLEAN
    /\ UNCHANGED vars

CallVerify ==
    /\ phase = "ready"
    /\ \E message \in Messages : \E signature \in Signatures(message) :
          Verify(kerl, tel, message, signature).ok \in BOOLEAN
    /\ UNCHANGED vars

Next ==
    \/ CallInceptKel
    \/ CallInceptTel
    \/ CallUpdateBackers
    \/ CallIssue
    \/ CallRevoke
    \/ CallRotate
    \/ CallKmRotate
    \/ CallGetVcState
    \/ CallGetTel
    \/ CallGetPubKey
    \/ CallVerify

Spec == Init /\ [][Next]_vars

\* ------------------------------------------------------------------------
\* Two callers of issue whose steps may interleave: make_ixn_with_seal taken
\* as its three steps read state / build and sign / append
\* ------------------------------------------------------------------------
\* the Controller that init returns for the arguments of test_issuing
Initialised ==
    LET km0 == [signer |-> 0, next_signer |-> 1]
        i == KerlIncept(<<>>, km0, TRUE)
    IN InceptTel(i.kerl, EmptyTel, km0, TestConfig[1], TestConfig[2], TRUE, TRUE)

\* a caller may start a call whatever the other caller is doing
MayEnter_Unguarded(ths, c, ph) == TRUE

\* issue takes &mut self: a call starts only when no other call is in flight,
\* unless the callers share the logs without that exclusion
MayEnter(ths, c, ph) ==
    ph = "shared" \/ \A d \in Callers \ {c} : ths[d].pc = "idle"

\* first step of make_ixn_with_seal: the interaction event for the seals,
\* numbered after the state that was read, and signed
KerlBuildIxn(st, seals, kmgr) ==
    LET ixn == [type |-> "ixn", prefix |-> st.prefix, sn |-> st.sn + 1,
                seals |-> seals]
    IN [event_message |-> ixn,
        signatures |-> <<KmSign(kmgr, SerializeEvent(ixn))>>]

\* last step of make_ixn_with_seal: the signed event reaches the KEL storage.
\* An event numbered next is appended; an event built on a state that is no
\* longer the latest is refused or replaces the event stored under its number.
KerlAppend(k, sev, replace) ==
    LET sn == sev.event_message.sn
    IN IF sn = KerlGetState(k).sn + 1
       THEN IF SignedBy(KerlGetState(k).current, sev)
            THEN [ok |-> TRUE, kerl |-> Append(k, sev)]
            ELSE [ok |-> FALSE, kerl |-> k]
       ELSE IF replace
       THEN [ok |-> TRUE, kerl |-> [k EXCEPT ![sn + 1] = sev]]
       ELSE [ok |-> FALSE, kerl |-> k]

InitInterleaved ==
    /\ phase \in {"exclusive", "shared"}
    /\ kerl = Initialised.kerl
    /\ tel = Initialised.tel
    /\ km = [signer |-> 0, next_signer |-> 1]
    /\ held = [m \in Messages |-> NoSignature]
    /\ last = Called("incept_tel", "", Ok(<<>>))
    /\ given = TestConfig
    /\ threads = [c \in Callers |-> IdleThread]

\* issue, lines 131-139: the issuance event is made and the KEL state read
IssueRead ==
    /\ phase \in {"exclusive", "shared"}
    /\ Len(kerl) < MaxKel
    /\ \E c \in Callers, message \in Messages :
          /\ threads[c].pc = "idle"
          /\ MayEnter(threads, c, phase)
          /\ threads' = [threads EXCEPT ![c] =
                 [pc |-> "read", res |-> "none", ev |-> <<>>,
                  message |-> message,
                  iss |-> TelMakeIssuanceEvent(tel, message),
                  st |-> KerlGetState(kerl)]]
    /\ UNCHANGED <<phase, kerl, tel, km, held, last, given>>

\* the interaction event sealing the issuance event is built and signed
IssueSign ==
    /\ \E c \in Callers :
          /\ threads[c].pc = "read"
          /\ LET th == threads[c]
             IN threads' = [threads EXCEPT ![c] =
                    [th EXCEPT !.pc = "signed",
                               !.ev = KerlBuildIxn(th.st, <<EventSeal(th.iss)>>,
                                                   km)]]
    /\ UNCHANGED <<phase, kerl, tel, km, held, last, given>>

\* the interaction event reaches the KEL; a refused event ends the call with
\* the error of make_ixn_with_seal
IssueAppend ==
    /\ \E c \in Callers, replace \in BOOLEAN :
          /\ threads[c].pc = "signed"
          /\ LET a == KerlAppend(kerl, threads[c].ev, replace)
             IN /\ kerl' = a.kerl
                /\ threads' = [threads EXCEPT ![c] =
                       IF a.ok THEN [threads[c] EXCEPT !.pc = "anchored"]
                       ELSE [pc |-> "idle", res |-> "make_ixn_with_seal",
                             ev |-> threads[c].ev]]
    /\ UNCHANGED <<phase, tel, km, held, last, given>>

\* issue, lines 141-148: the issuance event is submitted with the source seal
\* of the interaction event and the call returns
IssueSubmit ==
    /\ \E c \in Callers :
          /\ threads[c].pc = "anchored"
          /\ LET th == threads[c]
                 p == TelProcess(tel, VerifiableEvent("Vc", th.iss,
                                                      IssueSourceSeal(th.ev)),
                                 TRUE)
             IN /\ tel' = p.tel
                /\ threads' = [threads EXCEPT ![c] =
                       [pc |-> "idle",
                        res |-> IF p.ok THEN "ok" ELSE "tel.process",
                        ev |-> th.ev]]
    /\ UNCHANGED <<phase, kerl, km, held, last, given>>

NextInterleaved ==
    \/ IssueRead
    \/ IssueSign
    \/ IssueAppend
    \/ IssueSubmit

SpecInterleaved == InitInterleaved /\ [][NextInterleaved]_vars

\* ------------------------------------------------------------------------
\* Properties
\* ------------------------------------------------------------------------
AnchoringOps == {"incept_tel", "update_backers", "issue", "revoke"}

LastEvent(log) == log[Len(log)]

\* the interaction event ixn carries a seal of the TEL event's digest
SealedBy(ixn, vev) ==
    /\ ixn.type = "ixn"
    /\ \E j \in 1..Len(ixn.seals) :
          ixn.seals[j].event_digest = Derive(SerializeEvent(vev.event))

\* the KEL holds an interaction event with the sequence number and digest of
\* the source seal, and that event seals the TEL event
AnchoredIn(k, vev) ==
    \E i \in 1..Len(k) :
        LET e == k[i].event_message
        IN /\ e.sn = vev.seal.sn
           /\ Derive(SerializeEvent(e)) = vev.seal.digest
           /\ SealedBy(e, vev)

\* the KEL resolves a key state for the source seal of the TEL event
Resolvable(k, t, vev) ==
    KerlGetStateForSeal(k, TelGetIssuer(t), vev.seal.sn, vev.seal.digest).tag
        = "Some"

\* the verifiable event a step appended to the TEL (when it changed the TEL)
Submitted(t0, t1) ==
    IF t1.management # t0.management
    THEN LastEvent(t1.management)
    ELSE LastEvent(t1.vc[CHOOSE h \in MessageHashes : t1.vc[h] # t0.vc[h]])

TagOf(t, message) == GetVcState(t, MessageHash(message)).tag

Rank(t, message) ==
    IF TagOf(t, message) = "NotIsuued" THEN 0
    ELSE IF TagOf(t, message) = "Issued" THEN 1 ELSE 2

VerifiesTrue(k, t, message, signature) ==
    LET v == Verify(k, t, message, signature) IN v.ok /\ v.val = TRUE

FailsWith(k, t, message, signature, e) ==
    LET v == Verify(k, t, message, signature) IN ~v.ok /\ v.err = e

\* a rotation event follows the anchor of the issuance of the message
RotatedSince(k, t, message) ==
    LET log == GetTel(t, MessageHash(message))
    IN /\ Len(log) > 0
       /\ \E i \in 1..Len(k) :
             /\ k[i].event_message.type = "rot"
             /\ k[i].event_message.sn > log[1].seal.sn

\* C1: every event committed to the TEL carries a source seal {sn, digest}
\* equal to the sequence number and digest of an interaction event of the KEL
\* that seals the TEL event's digest, and the KEL resolves a key state for it.
MutualAnchoring ==
    /\ \A i \in 1..Len(tel.management) :
          /\ AnchoredIn(kerl, tel.management[i])
          /\ Resolvable(kerl, tel, tel.management[i])
    /\ \A h \in MessageHashes : \A i \in 1..Len(tel.vc[h]) :
          /\ AnchoredIn(kerl, tel.vc[h][i])
          /\ Resolvable(kerl, tel, tel.vc[h][i])

\* C2: a step of incept_tel, update_backers, issue or revoke that changes the
\* TEL appends, in the same call, the interaction event that seals the
\* submitted TEL event and that the event's source seal numbers; a call that
\* appends no interaction event returns an error and leaves the TEL unchanged.
AnchorPrecedesSubmit ==
    [][last'.op \in AnchoringOps =>
          /\ tel' # tel =>
                /\ kerl' = Append(kerl, LastEvent(kerl'))
                /\ SealedBy(LastEvent(kerl').event_message, Submitted(tel, tel'))
                /\ Submitted(tel, tel').seal.sn = LastEvent(kerl').event_message.sn
          /\ kerl' = kerl => tel' = tel /\ ~last'.res.ok]_vars

\* an anchoring call failed in make_ixn_with_seal because the key manager is
\* ahead of the KEL, with a credential already issued
AnchorFailedSeen ==
    /\ last.op = "issue"
    /\ ~last.res.ok
    /\ last.res.err = "make_ixn_with_seal"
    /\ \E m \in Messages : TagOf(tel, m) = "Issued"
    /\ KerlGetState(kerl).current # <<BasicPrefix(km.signer)>>

\* C3: right after a successful issue(m) returning s, verify(m, s) is Ok(true).
IssueThenVerify ==
    (last.op = "issue" /\ last.res.ok)
        => VerifiesTrue(kerl, tel, last.message, last.res.val)

IssuedSeen ==
    /\ last.op = "issue"
    /\ last.res.ok
    /\ TagOf(tel, last.message) = "Issued"
    /\ Verify(kerl, tel, last.message, last.res.val).ok

\* C4: a message issued with signature s and still Issued verifies with s
\* after the KEL was rotated following the issuance.
RotationInvariant ==
    \A m \in Messages :
        (/\ held[m] # NoSignature
         /\ TagOf(tel, m) = "Issued"
         /\ RotatedSince(kerl, tel, m))
            => VerifiesTrue(kerl, tel, m, held[m])

RotatedAfterIssueSeen ==
    /\ last.op = "rotate"
    /\ last.res.ok
    /\ \E m \in Messages :
          /\ held[m] # NoSignature
          /\ TagOf(tel, m) = "Issued"
          /\ RotatedSince(kerl, tel, m)
          /\ KerlGetState(kerl).current # <<BasicPrefix(held[m].signer)>>

\* C5: right after a successful revoke(m), verify(m, s) fails with the
\* credential-revoked error for every signature, the one issue returned included.
RevokedRejected ==
    (last.op = "revoke" /\ last.res.ok)
        => \A s \in Signatures(last.message) \cup {held[last.message]} :
              FailsWith(kerl, tel, last.message, s, "VC was revoked")

RevokedSeen ==
    /\ last.op = "revoke"
    /\ last.res.ok
    /\ held[last.message] # NoSignature
    /\ TagOf(tel, last.message) = "Revoked"

\* C6: for a message m for which no issue(m) has succeeded (the caller holds
\* no signature for it), verify(m, sig) fails with the not-yet-issued error
\* for every signature.
NeverIssuedRejected ==
    \A m \in Messages :
        held[m] = NoSignature
            => \A s \in Signatures(m) :
                  FailsWith(kerl, tel, m, s, "Not yet issued")

\* C7: issue(m) on a message Issued or Revoked, and revoke(m) on a message
\* NotIssued or Revoked, return an error and leave the credential log and the
\* state of m unchanged.
InvalidTransitionsRejected ==
    [][\A m \in Messages :
          ((\/ /\ last'.op = "issue"
               /\ TagOf(tel, m) \in {"Issued", "Revoked"}
            \/ /\ last'.op = "revoke"
               /\ TagOf(tel, m) \in {"NotIsuued", "Revoked"})
           /\ last'.message = m)
             => /\ ~last'.res.ok
                /\ GetTel(tel', MessageHash(m)) = GetTel(tel, MessageHash(m))
                /\ TagOf(tel', m) = TagOf(tel, m)]_vars

\* issue was refused for a message that is already Issued
ReissueRefusedSeen ==
    /\ last.op = "issue"
    /\ ~last.res.ok
    /\ last.res.err = "tel.process"
    /\ TagOf(tel, last.message) = "Issued"
    /\ held[last.message] # NoSignature

\* C8: the state of every credential only moves NotIssued -> Issued -> Revoked,
\* one stage at a time, and never moves back.
MonotoneCredentialState ==
    [][\A m \in Messages :
          /\ Rank(tel', m) >= Rank(tel, m)
          /\ Rank(tel', m) <= Rank(tel, m) + 1]_vars

\* issue was attempted on a revoked credential, which stays Revoked
RevokedStaysSeen ==
    /\ last.op = "issue"
    /\ ~last.res.ok
    /\ TagOf(tel, last.message) = "Revoked"
    /\ LastEvent(kerl).event_message.type = "ixn"
    /\ LastEvent(kerl).event_message.sn
          > LastEvent(GetTel(tel, MessageHash(last.message))).seal.sn

\* C9: a successful issue(m) appends exactly one issuance event to the empty
\* credential log of m, a successful revoke(m) exactly one revocation event
\* after the issuance, and no other successful call changes the log of m.
LogGrowsByOne ==
    [][\A m \in Messages :
          LET before == GetTel(tel, MessageHash(m))
              after == GetTel(tel', MessageHash(m))
          IN last'.res.ok =>
                IF last'.op = "issue" /\ last'.message = m
                THEN /\ before = <<>>
                     /\ Len(after) = 1
                     /\ after[1].event.type = "iss"
                ELSE IF last'.op = "revoke" /\ last'.message = m
                THEN /\ Len(before) = 1
                     /\ after = Append(before, LastEvent(after))
                     /\ LastEvent(after).event.type = "rev"
                ELSE after = before]_vars

IssuedThenRevokedSeen ==
    /\ last.op = "revoke"
    /\ last.res.ok
    /\ Len(GetTel(tel, MessageHash(last.message))) = 2
    /\ GetTel(tel, MessageHash(last.message))[1].event.type = "iss"
    /\ GetTel(tel, MessageHash(last.message))[2].event.type = "rev"

\* C10: a call whose tel.process fails after the anchor was appended returns
\* an error, keeps the one orphaned interaction event in the KEL and leaves the
\* TEL and every credential state unchanged; a call that anchored without
\* changing the TEL never returns Ok.
SubmitFailureLeavesOrphan ==
    [][last'.op \in AnchoringOps =>
          /\ last'.res.err = "tel.process" =>
                /\ ~last'.res.ok
                /\ kerl' = Append(kerl, LastEvent(kerl'))
                /\ LastEvent(kerl').event_message.type = "ixn"
                /\ tel' = tel
                /\ \A m \in Messages : TagOf(tel', m) = TagOf(tel, m)
          /\ (kerl' # kerl /\ tel' = tel) => ~last'.res.ok]_vars

\* revoke of an Issued credential failed in tel.process: the interaction
\* event sealing the revocation is in the KEL, the credential is still Issued
OrphanSeen ==
    /\ last.op = "revoke"
    /\ last.res.err = "tel.process"
    /\ TagOf(tel, last.message) = "Issued"
    /\ LastEvent(kerl).event_message.type = "ixn"
    /\ LastEvent(kerl).event_message.sn
          > LastEvent(GetTel(tel, MessageHash(last.message))).seal.sn

\* two Results of get_pub_key are the same answer
SameResult(a, b) ==
    /\ a.ok = b.ok
    /\ IF a.ok THEN a.val = b.val ELSE a.err = b.err

\* key set of the KEL as of the event the source seal of vev numbers
KeysAtAnchor(k, vev) == KelFold(k, vev.seal.sn + 1).current

\* C11: across every step that leaves the credential log of a message
\* unchanged, get_pub_key gives the same answer for its digest, and for a
\* non-empty log that answer is the key set of the KEL as of the interaction
\* event anchoring the last event of the log, whatever was appended to the KEL
\* in between.
HistoricalKeyResolution ==
    [][\A m \in Messages :
          LET h == MessageHash(m)
              log == GetTel(tel', h)
          IN log = GetTel(tel, h) =>
                /\ SameResult(GetPubKey(kerl', tel', h), GetPubKey(kerl, tel, h))
                /\ Len(log) > 0 =>
                      /\ GetPubKey(kerl', tel', h).ok
                      /\ GetPubKey(kerl', tel', h).val
                            = KeysAtAnchor(kerl', LastEvent(log))]_vars

\* C11 for the credentials whose last event is the issuance
IssuedKeyResolution ==
    [][\A m \in Messages :
          LET h == MessageHash(m)
              log == GetTel(tel', h)
          IN log = GetTel(tel, h) =>
                /\ SameResult(GetPubKey(kerl', tel', h), GetPubKey(kerl, tel, h))
                /\ (Len(log) > 0 /\ LastEvent(log).event.type = "iss") =>
                      /\ GetPubKey(kerl', tel', h).ok
                      /\ GetPubKey(kerl', tel', h).val
                            = KeysAtAnchor(kerl', LastEvent(log))]_vars

\* C12: the events of the KEL are numbered 0, 1, 2, ... without gap or
\* repetition; a successful incept_tel, update_backers, issue or revoke appends
\* exactly one interaction event and a successful rotate exactly one rotation
\* event, each numbered one more than the event before it.
KelSequenceGapless ==
    [][/\ \A i \in 1..Len(kerl') : kerl'[i].event_message.sn = i - 1
       /\ (last'.res.ok /\ last'.op \in AnchoringOps \cup {"rotate"}) =>
             /\ kerl' = Append(kerl, LastEvent(kerl'))
             /\ LastEvent(kerl').event_message.type
                   = IF last'.op = "rotate" THEN "rot" ELSE "ixn"
             /\ LastEvent(kerl').event_message.sn
                   = LastEvent(kerl).event_message.sn + 1]_vars

\* a rotation succeeded after the registry inception and two more anchors
RotatedAtFourSeen ==
    /\ last.op = "rotate"
    /\ last.res.ok
    /\ Len(kerl) = 5
    /\ LastEvent(kerl).event_message.type = "rot"
    /\ LastEvent(kerl).event_message.sn = 4
    /\ \A i \in 2..4 : kerl[i].event_message.type = "ixn"

\* positions of the management inception events in the management log
Inceptions(t) ==
    {i \in 1..Len(t.management) : t.management[i].event.type = "vcp"}

\* C13: the Controller that init returned has exactly one management
\* inception event in the TEL, the first event of the management log, anchored
\* after the inception event of the KEL; and whenever the TEL holds a
\* credential event the management inception is committed and was anchored
\* before it.
RegistryInceptedOnce ==
    /\ phase = "ready" =>
          /\ Inceptions(tel) = {1}
          /\ kerl[1].event_message.type = "icp"
          /\ tel.management[1].seal.sn > kerl[1].event_message.sn
    /\ \A h \in MessageHashes : \A i \in 1..Len(tel.vc[h]) :
          /\ Inceptions(tel) = {1}
          /\ tel.management[1].seal.sn < tel.vc[h][i].seal.sn

\* a credential was issued and revoked in a registry whose backers were
\* updated: the management log holds the inception and one rotation
CredentialsInRegistrySeen ==
    /\ phase = "ready"
    /\ Len(tel.management) = 2
    /\ \E h \in MessageHashes : Len(tel.vc[h]) = 2

\* C14: get_pub_key returns an error for the digest of every message whose
\* credential is Revoked.
RevokedHasNoKeys ==
    \A m \in Messages :
        TagOf(tel, m) = "Revoked" => ~GetPubKey(kerl, tel, MessageHash(m)).ok

\* keys are looked up for a revoked credential after a later call
RevokedKeyLookupSeen ==
    /\ last.op # "revoke"
    /\ \E m \in Messages :
          /\ TagOf(tel, m) = "Revoked"
          /\ held[m] # NoSignature
          /\ GetPubKey(kerl, tel, MessageHash(m)).err = "No key data"

\* key sets of up to MaxKeys public keys of the key manager's generations
KeySets ==
    UNION {[1..n -> {BasicPrefix(g) : g \in 0..MaxRot}] : n \in 0..MaxKeys}

\* every key of the set validates the signature for the message
AllKeysValidate(keys, message, signature) ==
    \A i \in 1..Len(keys) :
        PrefixVerify(keys[i], message, SelfSigningDerive(signature))

\* C17: for an Issued credential verify returns Ok(b) where b is true exactly
\* when the signature validates for the message under every public key of the
\* key set get_pub_key resolves, and the fold over a key set is false as soon
\* as one of its keys does not validate.
VerifyUnderEveryKey ==
    /\ \A m \in Messages : \A s \in Signatures(m) :
          LET key == GetPubKey(kerl, tel, MessageHash(m))
              v == Verify(kerl, tel, m, s)
          IN (TagOf(tel, m) = "Issued" /\ key.ok) =>
                /\ v.ok
                /\ v.val = AllKeysValidate(key.val, m, s)
    /\ \A keys \in KeySets : \A m \in Messages : \A s \in Signatures(m) :
          FoldKeys(keys, Len(keys), m, s) = AllKeysValidate(keys, m, s)

\* an Issued credential verifies with the signature of the issuing key and
\* gives Ok(false) for the signature of the rotated key
FalseAndTrueSeen ==
    \E m \in Messages : \E s1, s2 \in Signatures(m) :
        /\ TagOf(tel, m) = "Issued"
        /\ held[m] = s1
        /\ VerifiesTrue(kerl, tel, m, s1)
        /\ Verify(kerl, tel, m, s2).ok
        /\ Verify(kerl, tel, m, s2).val = FALSE
        /\ KerlGetState(kerl).current = <<BasicPrefix(s2.signer)>>

\* C18: get_pub_key fails with an error, returning no key set, for a digest
\* whose credential log is empty, and for a digest whose last event carries a
\* source seal for which the KEL resolves no key state.
KeyLookupFails ==
    \A m \in Messages :
        LET log == GetTel(tel, MessageHash(m))
            r == GetPubKey(kerl, tel, MessageHash(m))
        IN /\ Len(log) = 0 => (~r.ok /\ r.err = "No events in tel")
           /\ (Len(log) > 0 /\ ~Resolvable(kerl, tel, LastEvent(log)))
                 => (~r.ok /\ r.err = "No key data")

\* one message has no credential event, the last event of another has a
\* source seal the KEL does not resolve
BothLookupFailuresSeen ==
    \E m, n \in Messages :
        /\ Len(GetTel(tel, MessageHash(m))) = 0
        /\ ~GetPubKey(kerl, tel, MessageHash(m)).ok
        /\ Len(GetTel(tel, MessageHash(n))) > 0
        /\ ~Resolvable(kerl, tel, LastEvent(GetTel(tel, MessageHash(n))))
        /\ ~GetPubKey(kerl, tel, MessageHash(n)).ok

\* C19: a call of issue(m) that returns an error, the error of the key
\* manager's final signing call included, leaves the credential log and the
\* state of m as they were, so a message is Issued only if a call of issue
\* for it returned a signature.
IssueAllOrNothing ==
    [][/\ (last'.op = "issue" /\ ~last'.res.ok) =>
             /\ GetTel(tel', MessageHash(last'.message))
                   = GetTel(tel, MessageHash(last'.message))
             /\ TagOf(tel', last'.message) = TagOf(tel, last'.message)
       /\ \A m \in Messages :
             TagOf(tel', m) = "Issued" => held'[m] # NoSignature]_vars

\* C20: a call of issue(m) or revoke(m) leaves the credential log and the
\* state of every other message unchanged, and a call of rotate (like a
\* rotation of the key manager) leaves every credential log, every credential
\* state and the management log unchanged; the read-only calls change no
\* variable at all.
CredentialsIndependent ==
    [][/\ last'.op \in {"issue", "revoke"} =>
             \A m \in Messages \ {last'.message} :
                 /\ GetTel(tel', MessageHash(m)) = GetTel(tel, MessageHash(m))
                 /\ TagOf(tel', m) = TagOf(tel, m)
       /\ last'.op \in {"rotate", "km.rotate"} =>
             /\ \A m \in Messages :
                   /\ GetTel(tel', MessageHash(m)) = GetTel(tel, MessageHash(m))
                   /\ TagOf(tel', m) = TagOf(tel, m)
             /\ TelGetManagementEvents(tel') = TelGetManagementEvents(tel)]_vars

\* a message was issued while the other one is already Revoked
IssuedBesideRevokedSeen ==
    /\ last.op = "issue"
    /\ last.res.ok
    /\ TagOf(tel, last.message) = "Issued"
    /\ \E m \in Messages \ {last.message} :
          /\ TagOf(tel, m) = "Revoked"
          /\ Len(GetTel(tel, MessageHash(m))) = 2

\* C16: the management inception event of the registry carries the NoBackers
\* configuration exactly when init was given no backer list; given a list it
\* carries no flag, that list as its backers and the given threshold.
InceptionConfig ==
    phase = "ready" =>
        LET vcp == tel.management[1].event
        IN /\ (vcp.config = <<"NoBackers">>) <=> ~given[1].some
           /\ vcp.backer_threshold = given[2]
           /\ IF given[1].some
              THEN vcp.config = <<>> /\ vcp.backers = given[1].list
              ELSE vcp.backers = <<>>

\* a credential was issued in a registry incepted without a backer list
NoBackersRegistrySeen ==
    /\ phase = "ready"
    /\ ~given[1].some
    /\ TelGetManagementTelState(tel).config = <<"NoBackers">>
    /\ \E m \in Messages : TagOf(tel, m) = "Issued"

\* two calls hold interaction events built on the same KEL state, under the
\* same sequence number
SameBase ==
    \E c, d \in Callers :
        /\ c # d
        /\ threads[c].pc \in {"signed", "anchored"}
        /\ threads[d].pc \in {"signed", "anchored"}
        /\ threads[c].ev.event_message.sn = threads[d].ev.event_message.sn

\* the interaction event of a call was refused as stale, or is missing from
\* the KEL although the call went on after appending it
UpdateLost ==
    \E c \in Callers :
        \/ threads[c].res = "make_ixn_with_seal"
        \/ /\ threads[c].pc = "anchored" \/ threads[c].res \in {"ok", "tel.process"}
           /\ \A i \in 1..Len(kerl) : kerl[i] # threads[c].ev

\* C15: when every call runs to completion before the next one starts, no
\* two calls build their interaction event on the same KEL state and sequence
\* number and no call's interaction event is lost.
ExclusiveCallsLoseNothing ==
    phase = "exclusive" => (~SameBase /\ ~UpdateLost)

\* two interleaved calls both returned Ok for interaction events with the same
\* sequence number; the KEL holds only one of them and the credential of the
\* other call is Issued with a source seal the KEL does not resolve
LostUpdateSeen ==
    /\ phase = "shared"
    /\ \E c, d \in Callers :
          /\ c # d
          /\ threads[c].res = "ok"
          /\ threads[d].res = "ok"
          /\ threads[c].ev.event_message.sn = threads[d].ev.event_message.sn
          /\ \A i \in 1..Len(kerl) : kerl[i] # threads[c].ev
          /\ \E i \in 1..Len(kerl) : kerl[i] = threads[d].ev
          /\ \E m \in Messages :
                /\ TagOf(tel, m) = "Issued"
                /\ ~Resolvable(kerl, tel, LastEvent(GetTel(tel, MessageHash(m))))

====
